---- MODULE Spec2Model ----
(***************************************************************************)
(* Model of the bim terminal editor: the Document line buffer, the         *)
(* Terminal cursor, and the Editor's render / keystroke loop.              *)
(*                                                                         *)
(* A Rust String is modelled as the sequence of its UTF-8 bytes, each byte *)
(* a TLA+ string; String::len, insert, remove, split_off index bytes and   *)
(* panic off a character boundary, exactly as the standard library does.   *)
(* usize values are naturals; the two subtractions that can underflow      *)
(* (in Editor::draw) are modelled by their outcome per build profile.      *)
(* The terminal is at least 2 rows high in every initial state.            *)
(***************************************************************************)
EXTENDS Integers, Sequences, FiniteSets, TLC

\* ---------------------------------------------------------------- bounds
MaxLines == 3      \* Newline is offered only while the document is shorter
MaxBytes == 3      \* Char is offered only while the document holds fewer bytes
MaxHeight == 4     \* terminal heights 2..MaxHeight
MaxFileLen == 3    \* bytes of the file that is loaded at start

\* ------------------------------------------------------------ Rust String
\* UTF-8 continuation bytes (0b10xxxxxx); "A9" is the second byte of U+00E9.
ContinuationBytes == {"A9"}

\* char::encode_utf8 as used by String::insert
Utf8(c) == IF c = "e_acute" THEN <<"C3", "A9">> ELSE <<c>>

\* str::is_char_boundary
IsCharBoundary(s, idx) ==
    \/ idx = 0
    \/ idx = Len(s)
    \/ idx < Len(s) /\ s[idx + 1] \notin ContinuationBytes

\* String::insert that appends instead of inserting at idx
StrInsert_AtEnd(s, idx, c) == s \o Utf8(c)

\* String::insert(idx, c): the result when idx is a char boundary
StrInsert(s, idx, c) == SubSeq(s, 1, idx) \o Utf8(c) \o SubSeq(s, idx + 1, Len(s))

\* byte width of the char that starts at byte offset idx (idx < len)
CharWidthAt(s, idx) == IF s[idx + 1] = "C3" THEN 2 ELSE 1

\* String::remove(idx) panics at the end of the string and off a boundary
StrRemovePanics(s, idx) == idx >= Len(s) \/ ~IsCharBoundary(s, idx)

StrRemove(s, idx) == SubSeq(s, 1, idx) \o SubSeq(s, idx + CharWidthAt(s, idx) + 1, Len(s))

\* a subtraction that stops at one instead of zero
SatSub_StopsAtOne(a, b) == IF a > b THEN a - b ELSE a

\* usize::saturating_sub
SatSub(a, b) == IF a >= b THEN a - b ELSE 0

\* Vec::push in place of Vec::insert
VecInsert_Append(v, index, elem) == v \o <<elem>>

\* Vec::insert(index, elem) for index <= len
VecInsert(v, index, elem) == SubSeq(v, 1, index) \o <<elem>> \o SubSeq(v, index + 1, Len(v))

\* Vec::pop in place of Vec::remove
VecRemove_Last(v, index) == SubSeq(v, 1, Len(v) - 1)

\* Vec::remove(index) for index < len
VecRemove(v, index) == SubSeq(v, 1, index) \o SubSeq(v, index + 2, Len(v))

\* ---------------------------------------------------------------- Document
\* str::split_inclusive('\n')
RECURSIVE SplitInclusive(_)
SplitInclusive(s) ==
    IF s = <<>> THEN <<>>
    ELSE LET nl == {k \in 1..Len(s) : s[k] = "\n"}
         IN IF nl = {} THEN <<s>>
            ELSE LET k == CHOOSE m \in nl : \A n \in nl : m <= n
                 IN <<SubSeq(s, 1, k)>> \o SplitInclusive(SubSeq(s, k + 1, Len(s)))

\* one item of str::lines: strip the "\n", then a "\r" that preceded it
StripLineEnding(piece) ==
    IF piece # <<>> /\ piece[Len(piece)] = "\n"
    THEN LET body == SubSeq(piece, 1, Len(piece) - 1)
         IN IF body # <<>> /\ body[Len(body)] = "\r"
            THEN SubSeq(body, 1, Len(body) - 1)
            ELSE body
    ELSE piece

\* str::lines
StrLines(content) ==
    LET pieces == SplitInclusive(content)
    IN [k \in 1..Len(pieces) |-> StripLineEnding(pieces[k])]

\* Document::from_file. file.exists is Path::exists, file.content the bytes
\* read_to_string returns.
Document_from_file_NoEmptyFix(path, file) ==
    [lines |-> IF file.exists THEN StrLines(file.content) ELSE <<>>, path |-> path]

\* Document::from_file that leaves the path of Document::default
Document_from_file_DefaultPath(path, file) ==
    LET read == IF file.exists THEN StrLines(file.content) ELSE <<>>
    IN [lines |-> IF Len(read) = 0 THEN << <<>> >> ELSE read, path |-> ""]

Document_from_file(path, file) ==
    LET read == IF file.exists THEN StrLines(file.content) ELSE <<>>
    IN [lines |-> IF Len(read) = 0 THEN << <<>> >> ELSE read, path |-> path]

\* Document::save: the bytes written when File::create and every write_all
\* succeed: a "\n" before every line but the first, nothing after the last
RECURSIVE Document_save(_)
Document_save(ls) ==
    IF ls = <<>> THEN <<>>
    ELSE IF Len(ls) = 1 THEN ls[1]
    ELSE Document_save(SubSeq(ls, 1, Len(ls) - 1)) \o <<"\n">> \o ls[Len(ls)]

\* no file at the path
NoFile == [exists |-> FALSE, content |-> <<>>]

\* Document::from_file: which of its cases a file is
LoadBranch(file) ==
    IF ~file.exists THEN "no_file"
    ELSE IF file.content = <<>> THEN "empty_file" ELSE "file"

\* Document::default
Document_default == [lines |-> << <<>> >>, path |-> ""]

\* ------------------------------------------------------------------ Editor
\* Editor::default, then main's editor.open_document = Document::from_file(..).
\* The terminal record holds Terminal's cursor_position, height and width.
Editor_default(height, width) ==
    [running |-> TRUE,
     options_mode |-> FALSE,
     scroll_position |-> 0,
     terminal |-> [cursor_position |-> [x |-> 0, y |-> 0],
                   height |-> height, width |-> width],
     open_document |-> Document_default]

\* Terminal::get_cursor_position
get_cursor_position(e) == e.terminal.cursor_position

\* Terminal::set_cursor_position (the escape sequence written is not state)
set_cursor_position(e, position) == [e EXCEPT !.terminal.cursor_position = position]

\* What one keystroke handler did: the editor it leaves, whether it panicked
\* (the editor is then the one at the panic), the branch it took and the
\* number of Document::save calls it made.
Done(e, branch) ==
    [editor |-> e, panic |-> FALSE, branch |-> branch, saves |-> 0, written |-> NoFile]
Panicked(e, branch) ==
    [editor |-> e, panic |-> TRUE, branch |-> branch, saves |-> 0, written |-> NoFile]

\* self.open_document.save() was called once before the handler ended as r:
\* when it returned, the file holds what it wrote
Saved(r, e) ==
    [r EXCEPT !.saves = 1,
              !.written = IF r.panic THEN NoFile
                          ELSE [exists |-> TRUE,
                                content |-> Document_save(e.open_document.lines)]]

\* the scroll test of Key::Char('\n') with the status-bar row counted as an
\* editing row
EnterScrolls_OffByOne(e, position) == position.y + 1 > e.terminal.height - 1

\* Key::Char('\n') that never scrolls
EnterScrolls_Never(e, position) == FALSE

\* process_input, Key::Char('\n'): "attempting to enter past end of screen"
EnterScrolls(e, position) == position.y + 1 > e.terminal.height - 2

\* process_input, Key::Char('\n')
KeyEnter(e) ==
    LET position == get_cursor_position(e)
        lines == e.open_document.lines
        i == position.y + e.scroll_position
    IN IF i >= Len(lines) THEN Panicked(e, "index")
       ELSE LET line == lines[i + 1]
            IN IF ~IsCharBoundary(line, position.x) \/ position.x > Len(line)
               THEN Panicked(e, "split_off")
               ELSE LET after_cursor == SubSeq(line, position.x + 1, Len(line))
                        head == SubSeq(line, 1, position.x)
                        lines1 == VecInsert([lines EXCEPT ![i + 1] = head], i + 1, after_cursor)
                        scroll == EnterScrolls(e, position)
                        e1 == [e EXCEPT !.open_document.lines = lines1,
                                        !.scroll_position = IF scroll THEN @ + 1 ELSE @]
                        y1 == IF scroll THEN position.y ELSE position.y + 1
                    IN Done(set_cursor_position(e1, [x |-> 0, y |-> y1]),
                            IF scroll THEN "enter_scroll" ELSE "enter_row")

\* process_input, Key::Backspace
KeyBackspace(e) ==
    LET position == get_cursor_position(e)
        lines == e.open_document.lines
        i == position.y + e.scroll_position
    IN IF i >= Len(lines) THEN Panicked(e, "index")
       ELSE LET line == lines[i + 1]
            IN IF position.x > 0
               THEN IF StrRemovePanics(line, position.x - 1)
                    THEN Panicked(e, "remove")
                    ELSE LET e1 == set_cursor_position(e, [position EXCEPT !.x = SatSub(@, 1)])
                         IN Done([e1 EXCEPT !.open_document.lines[i + 1] =
                                                StrRemove(line, position.x - 1)],
                                 "bs_char")
               ELSE IF position.y > 0 \/ e.scroll_position > 0
               THEN LET prev_line == lines[i]
                        sp1 == IF e.scroll_position > 0 /\ position.y = 0
                               THEN SatSub(e.scroll_position, 1)
                               ELSE e.scroll_position
                        prev_line_len == Len(prev_line)
                        merged == prev_line \o line
                        y1 == SatSub(position.y, 1)
                    IN IF position.y + sp1 >= Len(lines)
                       THEN Panicked(e, "index")
                       ELSE LET lines1 == VecRemove(lines, position.y + sp1)
                            IN IF y1 + sp1 >= Len(lines1)
                               THEN Panicked(e, "index")
                               ELSE Done([set_cursor_position(e, [x |-> prev_line_len, y |-> y1])
                                            EXCEPT !.scroll_position = sp1,
                                                   !.open_document.lines =
                                                       [lines1 EXCEPT ![y1 + sp1 + 1] = merged]],
                                         IF sp1 # e.scroll_position THEN "bs_merge_scroll"
                                                                    ELSE "bs_merge_row")
               ELSE Done(e, "bs_none")

\* process_input, Key::Char(c)
KeyChar(e, c) ==
    LET position == get_cursor_position(e)
        lines == e.open_document.lines
        i == position.y + e.scroll_position
    IN IF i >= Len(lines) THEN Panicked(e, "index")
       ELSE LET line == lines[i + 1]
            IN IF ~IsCharBoundary(line, position.x) \/ position.x > Len(line)
               THEN Panicked(e, "insert")
               ELSE Done(set_cursor_position(
                             [e EXCEPT !.open_document.lines[i + 1] =
                                           StrInsert(line, position.x, c)],
                             [position EXCEPT !.x = @ + 1]),
                         "char")

\* Document line addressed by a cursor row and a scroll position
\* (lines[position.y + self.scroll_position]); <<>> stands for no line.
LineAt(e, y, scroll) ==
    IF y + scroll < Len(e.open_document.lines)
    THEN e.open_document.lines[y + scroll + 1]
    ELSE <<>>

\* the clamp of arrow_move left out
ClampX_Missing(px, len) == px

\* arrow_move, Up and Down: "if cursor is past end of line after moving, move
\* cursor to end of line"
ClampX(px, len) == IF px > len THEN len ELSE px

\* the end-of-document test of Key::Down, one line late
is_at_end_of_document_OneLate(e, position) ==
    position.y + e.scroll_position + 1 = Len(e.open_document.lines) + 1

\* arrow_move, Key::Down: is_at_end_of_document
is_at_end_of_document(e, position) ==
    position.y + e.scroll_position + 1 = Len(e.open_document.lines)

\* arrow_move, Key::Up
ArrowUp(e) ==
    LET position == get_cursor_position(e)
        y1 == IF position.y > 0 THEN SatSub(position.y, 1) ELSE position.y
        sp1 == IF position.y = 0 /\ e.scroll_position > 0
               THEN SatSub(e.scroll_position, 1)
               ELSE e.scroll_position
    IN IF y1 + sp1 >= Len(e.open_document.lines) THEN Panicked(e, "index")
       ELSE LET len == Len(LineAt(e, y1, sp1))
                x1 == ClampX(position.x, len)
            IN Done(set_cursor_position([e EXCEPT !.scroll_position = sp1],
                                        [x |-> x1, y |-> y1]),
                    IF y1 # position.y THEN "up_row"
                    ELSE IF sp1 # e.scroll_position THEN "up_scroll" ELSE "up_none")

\* arrow_move, Key::Down
ArrowDown(e) ==
    LET position == get_cursor_position(e)
        at_end == is_at_end_of_document(e, position)
        last_row == SatSub(e.terminal.height, 2)
    IN IF ~at_end /\ position.y < last_row
       THEN LET y1 == position.y + 1
            IN IF y1 + e.scroll_position >= Len(e.open_document.lines)
               THEN Panicked(e, "index")
               ELSE LET len == Len(LineAt(e, y1, e.scroll_position))
                        x1 == ClampX(position.x, len)
                    IN Done(set_cursor_position(e, [x |-> x1, y |-> y1]), "down_row")
       ELSE IF ~at_end /\ position.y = last_row
       THEN Done(set_cursor_position([e EXCEPT !.scroll_position = @ + 1], position),
                 "down_scroll")
       ELSE Done(set_cursor_position(e, position), "down_none")

\* arrow_move
arrow_move(e, key) ==
    LET position == get_cursor_position(e)
        i == position.y + e.scroll_position
        lines == e.open_document.lines
    IN CASE key = "Up" -> ArrowUp(e)
         [] key = "Down" -> ArrowDown(e)
         [] key = "Left" ->
                Done(set_cursor_position(e,
                        [position EXCEPT !.x = IF @ > 0 THEN SatSub(@, 1) ELSE @]), "left")
         [] key = "Right" ->
                IF i >= Len(lines) THEN Panicked(e, "index")
                ELSE Done(set_cursor_position(e,
                        [position EXCEPT !.x = IF @ < Len(lines[i + 1]) THEN @ + 1 ELSE @]),
                        "right")
         [] key = "Home" -> Done(set_cursor_position(e, [position EXCEPT !.x = 0]), "home")
         [] key = "End" ->
                IF i >= Len(lines) THEN Panicked(e, "index")
                ELSE Done(set_cursor_position(e, [position EXCEPT !.x = Len(lines[i + 1])]),
                          "end")
         [] OTHER -> Done(set_cursor_position(e, position), "page")

\* termion keys. A key that is a single character c stands for Key::Char(c);
\* "\n" is Key::Char('\n'); "F1" stands for every key no handler names.
Chars == {"a", "q", "s"}
MoveKeys == {"Up", "Down", "Left", "Right", "PageDown", "PageUp", "Home", "End"}
Keys == Chars \cup MoveKeys \cup {"\n", "Backspace", "Esc", "F1"}
\* The keys pressed in Editor mode: Key::Char(c) treats every c alike, and the
\* text typed is kept to two letters.
EditorKeys == Keys \ {"s"}

\* Key::Char(c) for a c that takes more than one byte in UTF-8
WideChars == {"e_acute"}

\* process_input: the match on the key read
process_input(e, key) ==
    CASE key = "\n" -> KeyEnter(e)
      [] key = "Backspace" -> KeyBackspace(e)
      [] key \in Chars \cup WideChars -> KeyChar(e, key)
      [] key \in MoveKeys -> arrow_move(e, key)
      [] key = "Esc" -> Done([e EXCEPT !.options_mode = TRUE], "esc")
      [] OTHER -> Done(e, "ignored")

\* process_options whose q saves before it quits
process_options_QuitSaves(e, key, save_ok) ==
    CASE key = "q" -> Saved(Done([e EXCEPT !.running = FALSE], "quit"), e)
      [] key \in {"s", "a"} ->
            IF save_ok
            THEN Saved(Done([e EXCEPT !.options_mode = FALSE, !.running = (key = "s")],
                            "save"), e)
            ELSE Saved(Panicked(e, "save"), e)
      [] key = "Esc" -> Done([e EXCEPT !.options_mode = FALSE], "esc")
      [] OTHER -> Done(e, "ignored")

\* process_options whose s and a update the mode and running before saving
process_options_SaveLast(e, key, save_ok) ==
    CASE key = "q" -> Done([e EXCEPT !.running = FALSE], "quit")
      [] key \in {"s", "a"} ->
            LET e1 == [e EXCEPT !.options_mode = FALSE, !.running = (key = "s")]
            IN IF save_ok
               THEN Saved(Done(e1, "save"), e)
               ELSE Saved(Panicked(e1, "save"), e)
      [] key = "Esc" -> Done([e EXCEPT !.options_mode = FALSE], "esc")
      [] OTHER -> Done(e, "ignored")

\* process_options where every key without an arm leaves Options mode
process_options_AnyKeyLeaves(e, key, save_ok) ==
    CASE key = "q" -> Done([e EXCEPT !.running = FALSE], "quit")
      [] key = "s" ->
            IF save_ok
            THEN Saved(Done([e EXCEPT !.options_mode = FALSE], "save"), e)
            ELSE Saved(Panicked(e, "save"), e)
      [] key = "a" ->
            IF save_ok
            THEN Saved(Done([e EXCEPT !.options_mode = FALSE, !.running = FALSE],
                            "save_exit"), e)
            ELSE Saved(Panicked(e, "save_exit"), e)
      [] key = "Esc" -> Done([e EXCEPT !.options_mode = FALSE], "esc")
      [] OTHER -> Done([e EXCEPT !.options_mode = FALSE], "ignored")

\* process_options that carries on after a save that failed
process_options_SaveErrorIgnored(e, key, save_ok) ==
    CASE key = "q" -> Done([e EXCEPT !.running = FALSE], "quit")
      [] key = "s" ->
            IF save_ok
            THEN Saved(Done([e EXCEPT !.options_mode = FALSE], "save"), e)
            ELSE [Done([e EXCEPT !.options_mode = FALSE], "save") EXCEPT !.saves = 1]
      [] key = "a" ->
            IF save_ok
            THEN Saved(Done([e EXCEPT !.options_mode = FALSE, !.running = FALSE],
                            "save_exit"), e)
            ELSE [Done([e EXCEPT !.options_mode = FALSE, !.running = FALSE], "save_exit")
                    EXCEPT !.saves = 1]
      [] key = "Esc" -> Done([e EXCEPT !.options_mode = FALSE], "esc")
      [] OTHER -> Done(e, "ignored")

\* process_options: the match on the key read. save_ok says whether
\* Document::save returns (File::create and every write_all succeed) or panics.
process_options(e, key, save_ok) ==
    CASE key = "q" -> Done([e EXCEPT !.running = FALSE], "quit")
      [] key = "s" ->
            IF save_ok
            THEN Saved(Done([e EXCEPT !.options_mode = FALSE], "save"), e)
            ELSE Saved(Panicked(e, "save"), e)
      [] key = "a" ->
            IF save_ok
            THEN Saved(Done([e EXCEPT !.options_mode = FALSE, !.running = FALSE],
                            "save_exit"), e)
            ELSE Saved(Panicked(e, "save_exit"), e)
      [] key = "Esc" -> Done([e EXCEPT !.options_mode = FALSE], "esc")
      [] OTHER -> Done(e, "ignored")

\* Length of the welcome message "BIM (Bad vIM) - version x.y.z"
BannerLen == 29

\* draw: the ways the rendering pass can end. Only the banner arithmetic can
\* stop it: (height / 2) - 2 and width - message.len() are usize subtractions,
\* which panic on underflow in a build with overflow checks (debug) and wrap in
\* one without (release); a wrapped row never equals a row index, a wrapped
\* padding is a loop of more than 2^62 prints, which does not end.
draw(e) ==
    LET lines == e.open_document.lines
        height == e.terminal.height
        row_indexes == {r + e.scroll_position : r \in 0..(height - 2)}
    IN IF Len(lines) = 0 THEN {"panic"}
       ELSE IF ~(Len(lines) <= 1 /\ Len(lines[1]) = 0) THEN {"ok"}
       ELSE IF height \div 2 < 2 THEN {"panic", "ok"}
       ELSE IF (height \div 2) - 2 \notin row_indexes THEN {"ok"}
       ELSE IF e.terminal.width < BannerLen THEN {"panic", "hang"}
       ELSE {"ok"}

\* draw: the iterations r of the row loop (0..height - 1, exclusive) that print
\* the welcome message, when the subtractions wrap or do not underflow
banner_rows(e) ==
    LET lines == e.open_document.lines
        height == e.terminal.height
    IN IF ~(Len(lines) <= 1 /\ Len(lines[1]) = 0) THEN {}
       ELSE {r \in 0..(height - 2) :
                height \div 2 >= 2 /\ r + e.scroll_position = (height \div 2) - 2}

\* ------------------------------------------------------------ state machine
VARIABLES
    editor,            \* the Editor, with its Terminal and its Document
    pc,                \* where Editor::run is: "draw", "input", "exited", "panicked", "hung"
    key,               \* the key read in this iteration of the loop ("none" before
                       \* process_input / process_options has read one)
    branch,            \* the branch the handler took for that key
    save_calls,        \* the number of Document::save calls the handler made for it
    saved_file         \* the file a save call of this iteration has written (NoFile
                       \* when none has returned)

vars == <<editor, pc, key, branch, save_calls, saved_file>>

lines == editor.open_document.lines
x == editor.terminal.cursor_position.x
y == editor.terminal.cursor_position.y
scroll_position == editor.scroll_position
height == editor.terminal.height
options_mode == editor.options_mode
running == editor.running

RECURSIVE TotalBytes(_)
TotalBytes(ls) == IF ls = <<>> THEN 0 ELSE Len(Head(ls)) + TotalBytes(Tail(ls))

RECURSIVE SeqsUpTo(_, _)
SeqsUpTo(S, n) ==
    IF n = 0 THEN {<<>>}
    ELSE LET shorter == SeqsUpTo(S, n - 1)
         IN shorter \cup {Append(q, b) : q \in shorter, b \in S}

\* the files the session may be started on: absent, or any short text
FileAlphabet == {"a", "q", "\n"}
Files == {[exists |-> FALSE, content |-> <<>>]}
         \cup {[exists |-> TRUE, content |-> c] : c \in SeqsUpTo(FileAlphabet, MaxFileLen)}
\* the session runs in an 80-column terminal
Widths == {80}

\* args[1]
RequestedPath == "f"

\* main: Editor::default(), open_document = Document::from_file(args[1])
StartEditor(file, h, w) ==
    [Editor_default(h, w) EXCEPT !.open_document = Document_from_file(RequestedPath, file)]

\* main: the editor is built and run() is entered; branch tells which case of
\* from_file the file was
Start(file, h, w) ==
    /\ editor = StartEditor(file, h, w)
    /\ pc = "draw"
    /\ key = "none"
    /\ branch = LoadBranch(file)
    /\ save_calls = 0
    /\ saved_file = NoFile

Init ==
    \E file \in Files, h \in 2..MaxHeight, w \in Widths : Start(file, h, w)

\* run without the exit check after draw()
Draw_NoExitCheck ==
    /\ pc = "draw"
    /\ "ok" \in draw(editor)
    /\ pc' = "input"
    /\ key' = "none"
    /\ branch' = "none"
    /\ save_calls' = 0
    /\ saved_file' = NoFile
    /\ UNCHANGED editor

\* run: the status bar and draw() succeed, then the exit check
Draw ==
    /\ pc = "draw"
    /\ "ok" \in draw(editor)
    /\ pc' = IF ~running THEN "exited" ELSE "input"
    /\ key' = "none"
    /\ branch' = "none"
    /\ save_calls' = 0
    /\ saved_file' = NoFile
    /\ UNCHANGED editor

\* run: draw() panics, never returns, or returns the error of flush()
DrawFails ==
    /\ pc = "draw"
    /\ \E outcome \in (draw(editor) \ {"ok"}) \cup {"flush_error"} :
          pc' = IF outcome = "hang" THEN "hung" ELSE "panicked"
    /\ UNCHANGED <<editor, key, branch, save_calls, saved_file>>

\* the handler call returned r
Handled(k, r) ==
    /\ editor' = r.editor
    /\ pc' = IF r.panic THEN "panicked" ELSE "draw"
    /\ key' = k
    /\ branch' = r.branch
    /\ save_calls' = r.saves
    /\ saved_file' = r.written

\* the document stays within the bounds of the model
WithinBounds(e) ==
    /\ Len(e.open_document.lines) <= MaxLines \/ e.open_document.lines = lines
    /\ TotalBytes(e.open_document.lines) <= MaxBytes
         \/ TotalBytes(e.open_document.lines) <= TotalBytes(lines)

\* run: Editor mode, process_input reads a key k of the set pressed
EditorInput(pressed) ==
    /\ pc = "input"
    /\ ~options_mode
    /\ \E k \in pressed :
          LET r == process_input(editor, k)
          IN WithinBounds(r.editor) /\ Handled(k, r)

ProcessInput == EditorInput(EditorKeys)

\* run: Options mode, process_options reads key k
ProcessOptions ==
    /\ pc = "input"
    /\ options_mode
    /\ \E k \in Keys, save_ok \in BOOLEAN : Handled(k, process_options(editor, k, save_ok))

\* run: read_key returns an error, which run turns into a panic
ReadKeyFails ==
    /\ pc = "input"
    /\ pc' = "panicked"
    /\ UNCHANGED <<editor, key, branch, save_calls, saved_file>>

Next == Draw \/ DrawFails \/ ProcessInput \/ ProcessOptions \/ ReadKeyFails

Spec == Init /\ [][Next]_vars

\* The session of the worked example: the file holds "abc\nde" and the
\* terminal has room for three editing rows or more.
ScenarioFile == [exists |-> TRUE, content |-> <<"a", "b", "c", "\n", "d", "e">>]

InitScenario ==
    \E h \in 4..MaxHeight, w \in Widths : Start(ScenarioFile, h, w)

\* the example types no text: every key but the letters is pressed
ScenarioInput == EditorInput(EditorKeys \ Chars)

NextScenario == Draw \/ DrawFails \/ ScenarioInput \/ ProcessOptions \/ ReadKeyFails

SpecScenario == InitScenario /\ [][NextScenario]_vars

\* Sessions on files that may hold carriage returns, and their successors: a
\* session started on the file a save has just written.
CrFiles == {NoFile}
           \cup {[exists |-> TRUE, content |-> c] :
                    c \in SeqsUpTo({"a", "\r", "\n"}, MaxFileLen)}

InitFile == \E file \in CrFiles, w \in Widths : Start(file, MaxHeight, w)

\* the keys pressed in these sessions
FileKeys == {"a", "\n", "Backspace", "End", "Down", "Esc"}

FileInput == EditorInput(FileKeys)

\* main, run again on the same path after a save has returned
Reopen ==
    /\ saved_file.exists
    /\ editor' = StartEditor(saved_file, editor.terminal.height, editor.terminal.width)
    /\ pc' = "draw"
    /\ key' = "none"
    /\ branch' = LoadBranch(saved_file)
    /\ save_calls' = 0
    /\ saved_file' = NoFile

NextFile == Draw \/ DrawFails \/ FileInput \/ ProcessOptions \/ ReadKeyFails \/ Reopen

SpecFile == InitFile /\ [][NextFile]_vars

\* Sessions with a character of two bytes, U+00E9, in the file or typed. Up
\* and Down are not pressed.
Utf8Files == {NoFile, [exists |-> TRUE, content |-> <<"C3", "A9">>]}

InitUtf8 == \E file \in Utf8Files, w \in Widths : Start(file, MaxHeight, w)

Utf8Keys == WideChars \cup {"a", "\n", "Backspace", "Left", "Right", "Home", "End", "Esc"}

Utf8Input == EditorInput(Utf8Keys)

NextUtf8 == Draw \/ DrawFails \/ Utf8Input \/ ProcessOptions \/ ReadKeyFails

SpecUtf8 == InitUtf8 /\ [][NextUtf8]_vars

\* ------------------------------------------------------------------ claims
CurrentLine == LineAt(editor, y, scroll_position)

\* this step is process_input returning or panicking
EditorStep == pc = "input" /\ ~options_mode /\ key' # "none"

\* this step is process_options returning or panicking
OptionsStep == pc = "input" /\ options_mode /\ key' # "none"

\* C1: in every reachable state the cursor column is at most the length of
\* the line at y + scroll_position, so no insert, removal or split is ever
\* attempted past the end of the current line.
C1_CursorColumnWithinLine ==
    /\ y + scroll_position < Len(lines) => x <= Len(CurrentLine)
    /\ branch \notin {"insert", "remove", "split_off"}

\* C2: in every reachable state y + scroll_position is less than the number
\* of lines, and no handler ever indexes lines out of range.
C2_AddressedLineExists ==
    /\ y + scroll_position < Len(lines)
    /\ branch # "index"

\* a Backspace merge on the last line of a scrolled view has just happened
C2_Witness ==
    /\ branch = "bs_merge_scroll"
    /\ scroll_position > 0
    /\ y + scroll_position + 1 = Len(lines)

\* C3: the cursor row is at most height - 2 in every reachable state.
C3_CursorRowAboveStatusBar == y >= 0 /\ y <= height - 2

\* Newline was pressed on the last editing row of a terminal with two
\* editing rows or more
C3_Witness == branch = "enter_scroll" /\ y = height - 2 /\ y > 0

\* C4: the document always has at least one line.
C4_LinesNeverEmpty == Len(lines) >= 1

\* a Backspace merge has left a single line
C4_Witness == branch \in {"bs_merge_row", "bs_merge_scroll"} /\ Len(lines) = 1

\* C5: the session starts in Editor mode and running; Esc toggles the mode;
\* running falls only on q or a in Options mode, q calls no save, and no
\* Editor-mode key calls save or changes running.
C5_ModesAndQuit ==
    /\ ~options_mode /\ running
    /\ [][/\ (EditorStep /\ key' = "Esc") => options_mode'
          /\ (OptionsStep /\ key' = "Esc") => ~options_mode'
          /\ (running /\ ~running') => (OptionsStep /\ key' \in {"q", "a"})
          /\ (OptionsStep /\ key' = "q") => (~running' /\ save_calls' = 0)
          /\ EditorStep => (save_calls' = 0 /\ running' = running)]_vars

\* q was pressed in Options mode
C5_Witness == key = "q" /\ ~running /\ save_calls = 0 /\ options_mode

\* C6: in Options mode s calls save once, then sets the mode to Editor and
\* leaves running true; a calls save once, then clears running. The save comes
\* first: when it panics neither the mode nor running has changed. Document,
\* cursor and scroll position are untouched.
C6_SaveKeys ==
    [][(OptionsStep /\ key' \in {"s", "a"}) =>
          /\ save_calls' = 1
          /\ lines' = lines /\ x' = x /\ y' = y /\ scroll_position' = scroll_position
          /\ IF pc' = "panicked"
             THEN options_mode' /\ running'
             ELSE /\ ~options_mode'
                  /\ running' = (key' = "s")]_vars

\* s was pressed in Options mode and the save returned
C6_Witness ==
    key = "s" /\ save_calls = 1 /\ ~options_mode /\ running /\ pc = "draw"

\* C7: from every reachable Editor-mode state, Newline then Backspace leaves
\* the document and the cursor offset as they were, on the same line.
C7_NewlineBackspaceRestores ==
    (pc = "input" /\ ~options_mode) =>
        LET r1 == process_input(editor, "\n")
            r2 == process_input(r1.editor, "Backspace")
        IN /\ ~r1.panic
           /\ ~r2.panic
           /\ r2.editor.open_document.lines = lines
           /\ r2.editor.terminal.cursor_position.x = x
           /\ r2.editor.terminal.cursor_position.y + r2.editor.scroll_position
                = y + scroll_position

\* C8: with lines "abc", "de", no scroll and the cursor at (3, 0): Down moves
\* the cursor to (2, 1); Newline there gives "abc", "de", "" and cursor
\* (0, 2); Backspace there gives "abc", "de" and cursor (2, 1).
C8_WorkedExample ==
    [][/\ (EditorStep /\ key' = "Down"
             /\ lines = << <<"a", "b", "c">>, <<"d", "e">> >>
             /\ scroll_position = 0 /\ x = 3 /\ y = 0)
          => (x' = 2 /\ y' = 1 /\ lines' = lines /\ scroll_position' = 0)
       /\ (EditorStep /\ key' = "\n"
             /\ lines = << <<"a", "b", "c">>, <<"d", "e">> >>
             /\ scroll_position = 0 /\ x = 2 /\ y = 1)
          => (/\ lines' = << <<"a", "b", "c">>, <<"d", "e">>, <<>> >>
              /\ x' = 0 /\ y' = 2 /\ scroll_position' = 0)
       /\ (EditorStep /\ key' = "Backspace"
             /\ lines = << <<"a", "b", "c">>, <<"d", "e">>, <<>> >>
             /\ scroll_position = 0 /\ x = 0 /\ y = 2)
          => (/\ lines' = << <<"a", "b", "c">>, <<"d", "e">> >>
              /\ x' = 2 /\ y' = 1 /\ scroll_position' = 0)]_vars

\* the last step of the example: Backspace has merged the third line away
C8_Witness ==
    /\ key = "Backspace" /\ branch = "bs_merge_row"
    /\ lines = << <<"a", "b", "c">>, <<"d", "e">> >>
    /\ x = 2 /\ y = 1 /\ scroll_position = 0

\* C9: typing c at offset x <= n of a line of length n gives a line of length
\* n + 1 with c at offset x and the other characters in order, moves x to
\* x + 1 and changes no other line, nor y, nor the scroll position.
C9_InsertIsPositionExact ==
    [][(EditorStep /\ key' \in Chars /\ y + scroll_position < Len(lines)
          /\ x <= Len(CurrentLine)) =>
          LET i == y + scroll_position + 1
              n == Len(CurrentLine)
          IN /\ pc' = "draw"
             /\ Len(lines') = Len(lines)
             /\ Len(lines'[i]) = n + 1
             /\ lines'[i][x + 1] = key'
             /\ \A k \in 1..x : lines'[i][k] = lines[i][k]
             /\ \A k \in (x + 1)..n : lines'[i][k + 1] = lines[i][k]
             /\ \A j \in 1..Len(lines) : j # i => lines'[j] = lines[j]
             /\ x' = x + 1
             /\ y' = y
             /\ scroll_position' = scroll_position]_vars

\* q was typed between two characters
C9_Witness ==
    /\ key = "q" /\ branch = "char"
    /\ x = 2
    /\ CurrentLine = <<"a", "q", "a">>

\* C10: after Up or Down, in every branch, x is at most the length of the
\* line now addressed: clamped to it when it was larger, unchanged otherwise.
C10_VerticalMoveClamps ==
    [][(EditorStep /\ key' \in {"Up", "Down"}) =>
          /\ pc' = "draw"
          /\ y' + scroll_position' < Len(lines')
          /\ LET len == Len(lines'[y' + scroll_position' + 1])
             IN x' = IF x > len THEN len ELSE x]_vars


\* this step starts a new session on the file the save has written
ReopenStep == pc = "draw" /\ pc' = "draw"

\* the lines are non-empty and hold no "\n"
NonEmptyNewlineFree(ls) ==
    \A k \in 1..Len(ls) : ls[k] # <<>> /\ \A j \in 1..Len(ls[k]) : ls[k][j] # "\n"

\* the number of "\n" bytes in a file
Newlines(bytes) == Cardinality({j \in 1..Len(bytes) : bytes[j] = "\n"})

\* C11: saving non-empty, newline-free lines L writes them joined by "\n"
\* with none after the last, and loading the written file gives L again.
C11_RoundTrip ==
    [][(ReopenStep /\ NonEmptyNewlineFree(lines)) =>
          /\ Newlines(saved_file.content) = Len(lines) - 1
          /\ saved_file.content[Len(saved_file.content)] # "\n"
          /\ lines' = lines]_vars

\* C12: a path that does not exist, or a file that is empty, loads as one
\* empty line, with the path that was asked for.
C12_EmptyLoad ==
    branch \in {"no_file", "empty_file"} =>
        /\ lines = << <<>> >>
        /\ editor.open_document.path = RequestedPath

\* a session has started on an existing, empty file
C12_Witness == branch = "empty_file" /\ pc = "draw"

C14_BackspaceMerge ==
    [][(EditorStep /\ key' = "Backspace" /\ x = 0 /\ y + scroll_position > 0) =>
          /\ pc' = "draw"
          /\ lines' = SubSeq(lines, 1, y + scroll_position - 1)
                        \o << lines[y + scroll_position] \o lines[y + scroll_position + 1] >>
                        \o SubSeq(lines, y + scroll_position + 2, Len(lines))
          /\ Len(lines') = Len(lines) - 1
          /\ x' = Len(lines[y + scroll_position])
          /\ y' + scroll_position' = y + scroll_position - 1
          /\ IF y = 0
             THEN scroll_position' = scroll_position - 1 /\ y' = 0
             ELSE y' = y - 1 /\ scroll_position' = scroll_position]_vars

\* a merge at the top row of a scrolled view that left a line below it
C14_Witness ==
    /\ key = "Backspace" /\ branch = "bs_merge_scroll"
    /\ y = 0 /\ x > 0
    /\ Len(lines) > y + scroll_position + 1

C16_VerticalMoveIndex ==
    [][/\ (EditorStep /\ key' = "Up") =>
             /\ pc' = "draw"
             /\ lines' = lines
             /\ IF y + scroll_position = 0
                THEN y' = y /\ scroll_position' = scroll_position
                ELSE IF y > 0
                THEN y' = y - 1 /\ scroll_position' = scroll_position
                ELSE y' = y /\ scroll_position' = scroll_position - 1
       /\ (EditorStep /\ key' = "Down") =>
             /\ pc' = "draw"
             /\ lines' = lines
             /\ IF y + scroll_position + 1 = Len(lines)
                THEN y' = y /\ scroll_position' = scroll_position
                ELSE IF y < height - 2
                THEN y' = y + 1 /\ scroll_position' = scroll_position
                ELSE y' = y /\ scroll_position' = scroll_position + 1]_vars

\* Up has scrolled the view back from its top row
C16_Witness == key = "Up" /\ branch = "up_scroll" /\ y = 0

\* C17: Left, Right, Home and End change x only, as stated; Backspace at the
\* start of the document, PageUp, PageDown, a key without a handler and every
\* Options-mode key but Esc, q, s, a change nothing of the editor.
C17_FrameEffects ==
    [][/\ (EditorStep /\ key' \in {"Left", "Right", "Home", "End"}
             /\ y + scroll_position < Len(lines)) =>
             /\ pc' = "draw"
             /\ editor' = [editor EXCEPT !.terminal.cursor_position.x = x']
             /\ x' = CASE key' = "Left" -> IF x > 0 THEN x - 1 ELSE x
                       [] key' = "Right" -> IF x < Len(CurrentLine) THEN x + 1 ELSE x
                       [] key' = "Home" -> 0
                       [] key' = "End" -> Len(CurrentLine)
       /\ (EditorStep /\ (\/ key' \in {"PageUp", "PageDown", "F1"}
                          \/ (key' = "Backspace" /\ x = 0 /\ y = 0 /\ scroll_position = 0))) =>
             (pc' = "draw" /\ editor' = editor)
       /\ (OptionsStep /\ key' \notin {"Esc", "q", "s", "a"}) =>
             (pc' = "draw" /\ editor' = editor)]_vars

\* a key without an arm was pressed in Options mode
C17_Witness == key = "Up" /\ branch = "ignored" /\ options_mode /\ pc = "draw"

\* C18: a save that fails ends the process at once: Options mode and running
\* stay as they were, and neither a render nor a key read follows.
C18_SaveFailureIsFatal ==
    [][/\ (OptionsStep /\ key' \in {"s", "a"} /\ save_calls' = 1 /\ ~saved_file'.exists) =>
             (pc' = "panicked" /\ editor' = editor)
       /\ pc # "panicked"]_vars

\* the process has ended in the save of s or a
C18_Witness ==
    /\ pc = "panicked" /\ key \in {"s", "a"} /\ save_calls = 1
    /\ options_mode /\ running

\* C19: whatever the size of the viewport, a render of a document that is one
\* empty line computes the banner row and the padding without underflow and
\* prints the banner in exactly one row; no other document gets a banner.
C19_BannerDrawnOnce ==
    pc = "draw" =>
        IF lines = << <<>> >>
        THEN /\ draw(editor) = {"ok"}
             /\ Cardinality(banner_rows(editor)) = 1
        ELSE banner_rows(editor) = {}

\* C20 as claimed: from an Editor-mode state with the cursor within its line,
\* Newline then Backspace leaves y and the scroll position each as it was.
C20_RowAndScrollRestored ==
    (pc = "input" /\ ~options_mode /\ x <= Len(CurrentLine)) =>
        LET r1 == process_input(editor, "\n")
            r2 == process_input(r1.editor, "Backspace")
        IN /\ ~r1.panic
           /\ ~r2.panic
           /\ r2.editor.terminal.cursor_position.y = y
           /\ r2.editor.scroll_position = scroll_position

\* C20: Newline then Backspace keeps y + scroll position; y and the scroll
\* position are each as before unless y was the last editing row h - 2 and
\* not row 0: then the scroll position ends one higher and y one lower. With
\* the cursor past the end of its line, Newline panics.
C20_RowRestoredOrViewShifted ==
    (pc = "input" /\ ~options_mode) =>
        LET r1 == process_input(editor, "\n")
            r2 == process_input(r1.editor, "Backspace")
        IN IF x > Len(CurrentLine) THEN r1.panic
           ELSE /\ ~r1.panic
                /\ ~r2.panic
                /\ r2.editor.terminal.cursor_position.y + r2.editor.scroll_position
                     = y + scroll_position
                /\ IF y = height - 2 /\ y > 0
                   THEN /\ r2.editor.terminal.cursor_position.y = y - 1
                        /\ r2.editor.scroll_position = scroll_position + 1
                   ELSE /\ r2.editor.terminal.cursor_position.y = y
                        /\ r2.editor.scroll_position = scroll_position

\* on the last editing row, below row 0, within a line: the two keys end with
\* the view one line further down
C20_Witness ==
    /\ pc = "input" /\ ~options_mode
    /\ y = height - 2 /\ y > 0
    /\ x > 0 /\ x <= Len(CurrentLine)
    /\ process_input(process_input(editor, "\n").editor, "Backspace").editor.scroll_position
         = scroll_position + 1

\* C21: with characters of more than one byte in the document or typed, x is
\* always on a character boundary of the current line, and no insert, removal
\* or split at x ends the session.
C21_CursorOnCharBoundary ==
    /\ y + scroll_position < Len(lines) => IsCharBoundary(CurrentLine, x)
    /\ ~(pc = "panicked" /\ branch \in {"insert", "remove", "split_off"})

====
